---- MODULE Spec2Model ----
(***************************************************************************)
(* Service binding commands of vscode-kubernetes-tools                     *)
(* (components/services/binding.ts and components/services/util.ts).       *)
(*                                                                         *)
(* A JavaScript string is a sequence of pieces (a piece is one character   *)
(* or one word that is never looked into); `undefined` and `null` are      *)
(* sentinel sequences.  A JavaScript object (the values document, the      *)
(* instance map) is a function whose DOMAIN is its set of keys.            *)
(***************************************************************************)
EXTENDS Integers, Sequences, FiniteSets, TLC

VARIABLES
    disk,                  \* the values.yaml file: [exists, text]
    ServiceInstanceNames,  \* binding.ts: export const ServiceInstanceNames
    ServiceInstanceArray,  \* binding.ts: export const ServiceInstanceArray
    ServiceInstanceMap,    \* binding.ts: export const ServiceInstanceMap
    flow,                  \* per command invocation: position and locals
    lastCall               \* history: the getServiceInstances call that returned last,
                           \* the stdout it was answered with and what it returned

vars == <<disk, ServiceInstanceNames, ServiceInstanceArray,
          ServiceInstanceMap, flow, lastCall>>

-----------------------------------------------------------------------------
(* Bounds *)

MaxRows == 2       \* lines of `svcat get instances` output after the header
MaxItems == 2      \* items of `kubectl get svc -o json`
MaxFlows == 2      \* command invocations that may be in flight together
MaxEntries == 3    \* entries of a section of a hand-written values.yaml

Flows == 1..MaxFlows

-----------------------------------------------------------------------------
(* JavaScript values *)

Undefined == <<"#undefined">>
Null == <<"#null">>
EmptyStr == <<>>

Falsy(s) == s \in {Undefined, Null, EmptyStr}

Range(s) == {s[i] : i \in DOMAIN s}

SeqsUpTo(S, n) == UNION {[1..k -> S] : k \in 0..n}

\* Number.prototype truthiness of an indexOf result
Truthy(n) == n # 0

IsAt(s, sub, i) ==
    /\ i + Len(sub) <= Len(s)
    /\ \A k \in 1..Len(sub) : s[i + k] = sub[k]

\* String.prototype.indexOf: 0-based position of the first match, or -1
IndexOf(s, sub) ==
    IF \E i \in 0..Len(s) : IsAt(s, sub, i)
    THEN CHOOSE i \in 0..Len(s) :
            IsAt(s, sub, i) /\ \A j \in 0..(i - 1) : ~IsAt(s, sub, j)
    ELSE -1

Includes(s, sub) == \E i \in 0..Len(s) : IsAt(s, sub, i)

RECURSIVE SplitAcc(_, _, _, _, _)
SplitAcc(s, sep, i, cur, acc) ==
    IF i > Len(s) THEN Append(acc, cur)
    ELSE IF s[i] = sep THEN SplitAcc(s, sep, i + 1, <<>>, Append(acc, cur))
    ELSE SplitAcc(s, sep, i + 1, Append(cur, s[i]), acc)

\* String.prototype.split with a one-character separator
Split(s, sep) == SplitAcc(s, sep, 1, <<>>, <<>>)

RECURSIVE Join(_, _)
Join(ss, sep) ==
    IF Len(ss) = 0 THEN <<>>
    ELSE IF Len(ss) = 1 THEN ss[1]
    ELSE ss[1] \o <<sep>> \o Join(Tail(ss), sep)

ToUpperPiece(c) ==
    CASE c = "a" -> "A"
      [] c = "b" -> "B"
      [] c = "user" -> "USER"
      [] c = "pass" -> "PASS"
      [] OTHER -> c

\* String.prototype.toUpperCase
ToUpperCase(s) == [i \in DOMAIN s |-> ToUpperPiece(s[i])]

\* arr[i] with a 0-based index; undefined past the end
At(arr, i) == IF i + 1 \in DOMAIN arr THEN arr[i + 1] ELSE Undefined

-----------------------------------------------------------------------------
(* binding.ts: enum ServiceType *)

serviceEnv == "serviceEnv"
serviceCatalogEnv == "serviceCatalogEnv"
ServiceType == {serviceEnv, serviceCatalogEnv}

-----------------------------------------------------------------------------
(* binding.ts: the instance cache and the tabular result parser *)

NonEmpty(s) == Len(s) # 0

\* binding.ts lines 223-230: one data row to a ServiceInstance
ToServiceInstance(line) ==
    LET filtered == SelectSeq(Split(line, " "), NonEmpty)
    IN  [name |-> At(filtered, 0),
         namespace |-> At(filtered, 1),
         class |-> At(filtered, 2),
         plan |-> At(filtered, 3),
         status |-> At(filtered, 4)]

\* (mutant) only the first line is taken for a header
SplitResults_OneHeader(results) ==
    LET lines == Split(results, "\n")
    IN  SelectSeq(SubSeq(lines, 2, Len(lines)), NonEmpty)

\* binding.ts line 218: remove headers + empty lines
SplitResults(results) ==
    LET lines == Split(results, "\n")
    IN  SelectSeq(SubSeq(lines, 3, Len(lines)), NonEmpty)

\* (mutant) the record is not entered into the map
PushInstance_NoMap(c, serviceInstance) ==
    [Names |-> Append(c.Names, serviceInstance.name),
     Array |-> Append(c.Array, serviceInstance),
     Map |-> c.Map]

\* binding.ts lines 232-238: one record into the three views of the cache
PushInstance(c, serviceInstance) ==
    [Names |-> Append(c.Names, serviceInstance.name),
     Array |-> Append(c.Array, serviceInstance),
     Map |-> [n \in DOMAIN c.Map \cup {serviceInstance.name} |->
                IF n = serviceInstance.name THEN serviceInstance ELSE c.Map[n]]]

RECURSIVE PushAll(_, _)
PushAll(c, recs) ==
    IF Len(recs) = 0 THEN c ELSE PushAll(PushInstance(c, Head(recs)), Tail(recs))

\* binding.ts lines 216-243: the returned records and the cache afterwards
cleanUpInstanceResults(results, c) ==
    LET splitResults == SplitResults(results)
        cleanedResults == [i \in DOMAIN splitResults |->
                              ToServiceInstance(splitResults[i])]
    IN  [ret |-> cleanedResults, cache |-> PushAll(c, cleanedResults)]

Cache == [Names |-> ServiceInstanceNames,
          Array |-> ServiceInstanceArray,
          Map |-> ServiceInstanceMap]

\* (mutant) the guard tests the map for emptiness
CacheNonEmpty_MapEmpty(c) == Len(c.Names) # 0 /\ DOMAIN c.Map = {}

\* binding.ts line 196: the guard of getServiceInstances
CacheNonEmpty(c) == Len(c.Names) # 0 /\ DOMAIN c.Map # {}

\* binding.ts line 105: the guard of addExternalService
CacheEmpty(c) == Len(c.Names) = 0 /\ DOMAIN c.Map = {}

-----------------------------------------------------------------------------
(* The values document and its YAML text *)

NoItem == [name |-> <<>>]

SectionLines(doc, key) ==
    IF key \notin DOMAIN doc THEN <<>>
    ELSE IF Len(doc[key]) = 0
         THEN <<[kind |-> "emptyseq", key |-> key, item |-> NoItem]>>
         ELSE <<[kind |-> "seq", key |-> key, item |-> NoItem]>>
              \o [i \in DOMAIN doc[key] |->
                     [kind |-> "item", key |-> key, item |-> doc[key][i]]]

OtherLines(doc) ==
    IF "other" \in DOMAIN doc
    THEN <<[kind |-> "scalar", key |-> "other", item |-> [name |-> doc["other"]]]>>
    ELSE <<>>

\* yamljs.stringify(yaml, 2): one line per key and one line per entry of a
\* section, the entry written inline
Stringify(doc) ==
    IF DOMAIN doc = {}
    THEN <<[kind |-> "emptymap", key |-> "", item |-> NoItem]>>
    ELSE OtherLines(doc) \o SectionLines(doc, serviceEnv)
                         \o SectionLines(doc, serviceCatalogEnv)

EmptyDoc == [k \in {} |-> <<>>]

RECURSIVE ParseFrom(_, _, _)
ParseFrom(text, i, doc) ==
    IF i > Len(text) THEN doc
    ELSE LET ln == text[i] IN
         CASE ln.kind = "emptymap" -> ParseFrom(text, i + 1, doc)
           [] ln.kind = "scalar" ->
                ParseFrom(text, i + 1, (ln.key :> ln.item.name) @@ doc)
           [] ln.kind \in {"emptyseq", "seq"} ->
                ParseFrom(text, i + 1, (ln.key :> <<>>) @@ doc)
           [] ln.kind = "item" ->
                ParseFrom(text, i + 1, [doc EXCEPT ![ln.key] = Append(@, ln.item)])

\* yamljs.load(valuesFile)
Load(text) == ParseFrom(text, 1, EmptyDoc)

NoFile == [exists |-> FALSE, text |-> <<>>]
File(doc) == [exists |-> TRUE, text |-> Stringify(doc)]

\* (mutant) no binding is ever found
isBindingAdded_Never(serviceType, bindingName, valuesYaml) == FALSE

\* (mutant) the binding is looked up in serviceCatalogEnv whatever the type
isBindingAdded_CatalogOnly(serviceType, bindingName, valuesYaml) ==
    IF serviceCatalogEnv \notin DOMAIN valuesYaml THEN FALSE
    ELSE \E i \in DOMAIN valuesYaml[serviceCatalogEnv] :
            valuesYaml[serviceCatalogEnv][i].name = bindingName

\* util.ts lines 72-82
isBindingAdded(serviceType, bindingName, valuesYaml) ==
    IF serviceType \notin DOMAIN valuesYaml THEN FALSE
    ELSE \E i \in DOMAIN valuesYaml[serviceType] :
            valuesYaml[serviceType][i].name = bindingName

\* (mutant) the section is always created anew
AppendBinding_Fresh(serviceType, bindingName, value, yaml) ==
    LET binding == IF serviceType = serviceEnv
                   THEN [name |-> bindingName, value |-> value]
                   ELSE [name |-> bindingName, vars |-> value]
    IN  (serviceType :> <<binding>>) @@ yaml

\* util.ts lines 30-58: the in-memory part of writeSecretData
AppendBinding(serviceType, bindingName, value, yaml) ==
    LET binding == IF serviceType = serviceEnv
                   THEN [name |-> bindingName, value |-> value]
                   ELSE [name |-> bindingName, vars |-> value]
    IN  IF serviceType \in DOMAIN yaml
        THEN [yaml EXCEPT ![serviceType] = Append(@, binding)]
        ELSE (serviceType :> <<binding>>) @@ yaml

\* (mutant) the name is pruned from both sections
PruneBinding_BothSections(serviceType, bindingToRemove, yaml) ==
    LET Keep(binding) == binding.name # bindingToRemove
    IN  [k \in DOMAIN yaml |->
            IF k \in {serviceEnv, serviceCatalogEnv}
            THEN SelectSeq(yaml[k], Keep) ELSE yaml[k]]

\* (mutant) the first entry is dropped, whatever was selected
PruneBinding_DropHead(serviceType, bindingToRemove, yaml) ==
    [yaml EXCEPT ![serviceType] = IF Len(@) = 0 THEN @ ELSE Tail(@)]

\* util.ts lines 158-162: the in-memory part of removeServiceBinding
PruneBinding(serviceType, bindingToRemove, yaml) ==
    LET Keep(binding) == binding.name # bindingToRemove
    IN  [yaml EXCEPT ![serviceType] = SelectSeq(@, Keep)]

\* (mutant) the namespace is left out of the DNS name
DnsName_NoNamespace(serviceObj) ==
    serviceObj.name \o <<".svc.cluster.local">>

\* binding.ts line 82
DnsName(serviceObj) ==
    serviceObj.name \o <<".">> \o serviceObj.namespace \o <<".svc.cluster.local">>

\* util.ts lines 103-122: the text written to the clipboard
UsageMessage(serviceType, bindingName, secretKeys) ==
    IF serviceType = serviceEnv
    THEN [header |-> "dns",
          lines |-> <<<<"SERVICE_">> \o ToUpperCase(bindingName)>>]
    ELSE [header |-> "vars",
          lines |-> [i \in DOMAIN secretKeys |->
                       ToUpperCase(bindingName \o <<"_">> \o secretKeys[i])]]

-----------------------------------------------------------------------------
(* What the collaborators can answer *)

Names == {<<"a">>, <<"b">>}

\* `kubectl get svc -o json`: exit code and stdout (JSON or not)
Services == {[name |-> <<"a">>, namespace |-> <<"default">>],
             [name |-> <<"a">>, namespace |-> <<"kube">>],
             [name |-> <<"b">>, namespace |-> <<"default">>]}
KubectlStdouts ==
    {[json |-> FALSE, items |-> <<>>]}
        \cup {[json |-> TRUE, items |-> it] : it \in SeqsUpTo(Services, MaxItems)}
KubectlResults ==
    {[code |-> -1, stdout |-> [json |-> FALSE, items |-> <<>>]]}
        \cup [code : {0, 1}, stdout : KubectlStdouts]

\* `svcat get instances`: lines of pieces, joined by newlines
HeaderLine == <<"NAME", " ", "NAMESPACE", " ", "CLASS", " ", "PLAN", " ", "STATUS">>
RuleLine == <<"+------+">>
RowLine(n) == <<n, " ", " ", "default", " ", "mysqldb", " ", "free", " ", "Ready">>
SvcatLines == {<<>>, RowLine("a"), RowLine("b")}
SvcatStdouts ==
    {<<>>} \cup {Join(<<HeaderLine, RuleLine>> \o ls, "\n") :
                    ls \in SeqsUpTo(SvcatLines, MaxRows)}
SvcatResults ==
    {[raised |-> TRUE, code |-> 0, stdout |-> <<>>],
     [raised |-> FALSE, code |-> 1, stdout |-> <<>>]}
        \cup {[raised |-> FALSE, code |-> 0, stdout |-> s] : s \in SvcatStdouts}

\* `svcat bind`: stderr
AlreadyExists == <<"already exists">>
Stderrs == {<<>>, <<"error">>, <<"already exists">>,
            <<"error", "already exists">>, <<"already exists", "error">>}
BindResults ==
    {[raised |-> TRUE, code |-> 0, stderr |-> <<>>],
     [raised |-> FALSE, code |-> 0, stderr |-> <<>>]}
        \cup {[raised |-> FALSE, code |-> 1, stderr |-> e] : e \in Stderrs}

\* `kubectl get secret -o json`: stdout (JSON or not, with or without .data)
SecretKeys == {<< <<"user">>, <<"pass">> >>}
SecretStdouts ==
    {[json |-> FALSE, data |-> FALSE, keys |-> <<>>],
     [json |-> TRUE, data |-> FALSE, keys |-> <<>>]}
        \cup {[json |-> TRUE, data |-> TRUE, keys |-> k] : k \in SecretKeys}
SecretResults ==
    {[raised |-> TRUE, code |-> 0, stdout |-> [json |-> FALSE, data |-> FALSE, keys |-> <<>>]],
     [raised |-> FALSE, code |-> 1, stdout |-> [json |-> FALSE, data |-> FALSE, keys |-> <<>>]]}
        \cup {[raised |-> FALSE, code |-> 0, stdout |-> s] : s \in SecretStdouts}

-----------------------------------------------------------------------------
(* Command invocations *)

NoReturn == [undef |-> TRUE, val |-> <<>>]
NoMessage == [header |-> "none", lines |-> <<>>]
NoResults == [raised |-> FALSE, code |-> 0, stderr |-> <<>>]
NoSecretResults ==
    [raised |-> FALSE, code |-> 0,
     stdout |-> [json |-> FALSE, data |-> FALSE, keys |-> <<>>]]

IdleFlow ==
    [cmd |-> "none", pc |-> "idle", kind |-> "",
     loaded |-> EmptyDoc, yaml |-> EmptyDoc,
     services |-> <<>>, opts |-> <<>>, sel |-> Undefined,
     binding |-> Undefined, keys |-> <<>>, ret |-> NoReturn,
     notices |-> <<>>, clipboard |-> NoMessage,
     listing |-> "none", bindResults |-> NoResults, bound |-> FALSE,
     discovered |-> FALSE, prompted |-> FALSE, bindInvoked |-> FALSE,
     secretFetched |-> FALSE, secretResults |-> NoSecretResults,
     secretSettled |-> FALSE, unlinked |-> FALSE, written |-> FALSE,
     clipped |-> FALSE, threw |-> FALSE]

Set(f, r) == flow' = [flow EXCEPT ![f] = r]
\* the command returns, or an exception leaves it; its locals go out of scope
Return(r) == [r EXCEPT !.pc = "done", !.services = <<>>, !.opts = <<>>]
Throw(r) == [Return(r) EXCEPT !.threw = TRUE]
Notify(r, level, text) ==
    [r EXCEPT !.notices = Append(@, [level |-> level, text |-> text])]
\* host.showQuickPick(options, ...)
ShowQuickPick(r, options) ==
    [r EXCEPT !.opts = options, !.prompted = TRUE, !.pc = "pick"]
\* the answers of the prompt: one of the options, or nothing
Selections(r) == Range(r.opts) \cup {Undefined, EmptyStr}

NoCall == [returned |-> FALSE, invoked |-> FALSE, stdout |-> <<>>,
           ret |-> NoReturn]

LogCall(invoked, stdout, ret) ==
    lastCall' = [returned |-> TRUE, invoked |-> invoked, stdout |-> stdout,
                 ret |-> ret]

CacheVars == <<ServiceInstanceNames, ServiceInstanceArray, ServiceInstanceMap>>

SetCache(c) ==
    /\ ServiceInstanceNames' = c.Names
    /\ ServiceInstanceArray' = c.Array
    /\ ServiceInstanceMap' = c.Map

Begin(f, cmd, kind) ==
    /\ flow[f].pc \in {"idle", "done"}
    /\ Set(f, [IdleFlow EXCEPT !.cmd = cmd, !.kind = kind, !.pc = "load"])
    /\ UNCHANGED <<disk, CacheVars, lastCall>>

\* binding.ts line 45-46
addService(f) == Begin(f, "addService", serviceEnv)
\* binding.ts lines 93-95
removeService(f) == Begin(f, "removeService", serviceEnv)
\* binding.ts lines 102-103
addExternalService(f) == Begin(f, "addExternalService", serviceCatalogEnv)
\* binding.ts lines 136-138
removeExternalService(f) == Begin(f, "removeExternalService", serviceCatalogEnv)

\* binding.ts lines 193-202: up to the discovery call
getServiceInstances(f) ==
    /\ flow[f].pc \in {"idle", "done"}
    /\ LET r == [IdleFlow EXCEPT !.cmd = "getServiceInstances"]
           hit == [undef |-> FALSE, val |-> ServiceInstanceArray]
       IN  IF CacheNonEmpty(Cache)
           THEN /\ Set(f, Return([r EXCEPT !.ret = hit]))
                /\ LogCall(FALSE, <<>>, hit)
           ELSE /\ Set(f, [r EXCEPT !.pc = "discover", !.discovered = TRUE])
                /\ UNCHANGED lastCall
    /\ UNCHANGED <<disk, CacheVars>>

\* util.ts lines 125-134, then binding.ts line 48
addServiceLoaded(f) ==
    LET r == flow[f] IN
    /\ r.cmd = "addService" /\ r.pc = "load"
    /\ IF ~disk.exists
       THEN Set(f, Throw(r))
       ELSE LET y == Load(disk.text)
            IN  Set(f, [r EXCEPT !.loaded = y, !.yaml = y, !.pc = "getsvc"])
    /\ UNCHANGED <<disk, CacheVars, lastCall>>

\* binding.ts lines 49-74
addServiceListed(f) ==
    LET r == flow[f] IN
    /\ r.cmd = "addService" /\ r.pc = "getsvc"
    /\ \E serviceResult \in KubectlResults :
          LET code == serviceResult.code
              stdout == serviceResult.stdout
          IN
          IF code = -1 THEN Set(f, Return([r EXCEPT !.listing = "failed"]))
          ELSE IF ~stdout.json THEN Set(f, Throw(r))
          ELSE IF Len(stdout.items) = 0
          THEN Set(f, Return(Notify([r EXCEPT !.listing = "empty"], "info",
                                    "No services found in current namespace")))
          ELSE LET serviceNames == [i \in DOMAIN stdout.items |->
                                       stdout.items[i].name]
               IN  Set(f, ShowQuickPick([r EXCEPT !.services = stdout.items,
                                                  !.listing = "found"],
                                        serviceNames))
    /\ UNCHANGED <<disk, CacheVars, lastCall>>

\* binding.ts lines 76-88, then util.ts lines 30-61
addServicePicked(f) ==
    LET r == flow[f] IN
    /\ r.cmd = "addService" /\ r.pc = "pick"
    /\ \E selectedService \in Selections(r) :
          LET s == [r EXCEPT !.sel = selectedService]
              IsSelected(service) == service.name = selectedService
              matching == SelectSeq(r.services, IsSelected)
          IN  IF selectedService = EmptyStr THEN Set(f, Return(s))
              ELSE IF Len(matching) = 0 THEN Set(f, Throw(s))
              ELSE LET serviceObj == matching[1]
                       b == [s EXCEPT !.binding = serviceObj.name]
                   IN  IF isBindingAdded(serviceEnv, serviceObj.name, r.yaml)
                       THEN Set(f, Return(b))
                       ELSE Set(f, [b EXCEPT
                                !.yaml = AppendBinding(serviceEnv, serviceObj.name,
                                                       DnsName(serviceObj), r.yaml),
                                !.pc = "unlink"])
    /\ UNCHANGED <<disk, CacheVars, lastCall>>

-----------------------------------------------------------------------------
(* addExternalService and getServiceInstances *)

\* util.ts lines 125-134, then binding.ts lines 105-111
addExternalServiceLoaded(f) ==
    LET r == flow[f] IN
    /\ r.cmd = "addExternalService" /\ r.pc = "load"
    /\ IF ~disk.exists
       THEN Set(f, Throw(r))
       ELSE LET y == Load(disk.text)
                l == [r EXCEPT !.loaded = y, !.yaml = y]
            IN  IF CacheEmpty(Cache) /\ ~CacheNonEmpty(Cache)
                THEN Set(f, [l EXCEPT !.pc = "discover", !.discovered = TRUE])
                ELSE Set(f, ShowQuickPick(l, ServiceInstanceNames))
    /\ UNCHANGED <<disk, CacheVars, lastCall>>

\* binding.ts lines 200-213: what getServiceInstances returns, the notices it
\* shows and the cache it leaves, given the result of `svcat get instances`
InstancesResult(results, c) ==
    IF results.raised \/ results.code # 0
    THEN [ret |-> NoReturn, cache |-> c,
          notices |-> <<[level |-> "error",
                         text |-> "Error retrieving Service Instances"]>>]
    ELSE LET out == cleanUpInstanceResults(results.stdout, c)
         IN  [ret |-> [undef |-> FALSE, val |-> out.ret], cache |-> out.cache,
              notices |-> <<>>]

\* binding.ts lines 203-213, then (in addExternalService) lines 109-111
instancesListed(f) ==
    LET r == flow[f] IN
    /\ r.pc = "discover"
    /\ \E results \in SvcatResults :
          LET out == InstancesResult(results, Cache)
              g == [r EXCEPT !.ret = out.ret, !.notices = @ \o out.notices,
                             !.listing = IF out.ret.undef THEN "failed"
                                         ELSE IF Len(out.ret.val) = 0 THEN "empty"
                                         ELSE "found"]
          IN  /\ SetCache(out.cache)
              /\ LogCall(TRUE, results.stdout, out.ret)
              /\ IF r.cmd = "getServiceInstances"
                 THEN Set(f, Return(g))
                 ELSE Set(f, ShowQuickPick(g, out.cache.Names))
    /\ UNCHANGED disk

\* binding.ts line 113 and lines 167-170: the bind command is issued
addExternalServicePicked(f) ==
    LET r == flow[f] IN
    /\ r.cmd = "addExternalService" /\ r.pc = "pick"
    /\ \E serviceToBind \in Selections(r) :
          Set(f, [r EXCEPT !.sel = serviceToBind, !.bindInvoked = TRUE,
                           !.pc = "bind"])
    /\ UNCHANGED <<disk, CacheVars, lastCall>>

\* binding.ts lines 167-187
createOrGetServiceBinding(serviceName, results) ==
    IF results.raised
    THEN [ret |-> Undefined,
          notices |-> <<[level |-> "error",
                         text |-> "Error binding to External Service"]>>]
    ELSE IF results.code # 0
    THEN IF Truthy(IndexOf(results.stderr, AlreadyExists))
         THEN [ret |-> serviceName, notices |-> <<>>]
         ELSE [ret |-> Null,
               notices |-> <<[level |-> "error",
                              text |-> "Could not bind to External Service"]>>]
    ELSE [ret |-> serviceName, notices |-> <<>>]

\* binding.ts lines 113-124
addExternalServiceBound(f) ==
    LET r == flow[f] IN
    /\ r.cmd = "addExternalService" /\ r.pc = "bind"
    /\ \E results \in BindResults :
          LET out == createOrGetServiceBinding(r.sel, results)
              b == [r EXCEPT !.binding = out.ret, !.notices = @ \o out.notices,
                             !.bindResults = results, !.bound = TRUE]
          IN  IF Falsy(out.ret) THEN Set(f, Return(b))
              ELSE IF isBindingAdded(serviceCatalogEnv, out.ret, r.yaml)
              THEN Set(f, Return(b))
              ELSE Set(f, [b EXCEPT !.secretFetched = TRUE, !.pc = "secret"])
    /\ UNCHANGED <<disk, CacheVars, lastCall>>

\* (mutant) a non-zero exit code of the secret lookup is not reported
getSecretData_Silent(results) ==
    IF results.raised
    THEN [threw |-> FALSE, undef |-> TRUE, keys |-> <<>>,
          notices |-> <<[level |-> "error",
                         text |-> "Could not find the External Service secret"]>>]
    ELSE IF results.code # 0
    THEN [threw |-> FALSE, undef |-> TRUE, keys |-> <<>>, notices |-> <<>>]
    ELSE IF ~results.stdout.json
    THEN [threw |-> TRUE, undef |-> TRUE, keys |-> <<>>, notices |-> <<>>]
    ELSE [threw |-> FALSE, undef |-> ~results.stdout.data,
          keys |-> results.stdout.keys, notices |-> <<>>]

\* binding.ts lines 145-161
getSecretData(results) ==
    IF results.raised
    THEN [threw |-> FALSE, undef |-> TRUE, keys |-> <<>>,
          notices |-> <<[level |-> "error",
                         text |-> "Could not find the External Service secret"]>>]
    ELSE IF results.code # 0
    THEN [threw |-> FALSE, undef |-> TRUE, keys |-> <<>>,
          notices |-> <<[level |-> "error",
                         text |-> "Could not get External Service"]>>]
    ELSE IF ~results.stdout.json
    THEN [threw |-> TRUE, undef |-> TRUE, keys |-> <<>>, notices |-> <<>>]
    ELSE [threw |-> FALSE, undef |-> ~results.stdout.data,
          keys |-> results.stdout.keys, notices |-> <<>>]

\* binding.ts lines 124-126, then util.ts lines 30-61
addExternalServiceSecret(f) ==
    LET r == flow[f] IN
    /\ r.cmd = "addExternalService" /\ r.pc = "secret"
    /\ \E results \in SecretResults :
          LET secretData == getSecretData(results)
              n == [r EXCEPT !.notices = @ \o secretData.notices,
                             !.secretResults = results, !.secretSettled = TRUE]
          IN  IF secretData.threw \/ secretData.undef
              THEN Set(f, Throw(n))
              ELSE Set(f, [n EXCEPT
                       !.keys = secretData.keys,
                       !.yaml = AppendBinding(serviceCatalogEnv, r.binding,
                                              secretData.keys, r.yaml),
                       !.pc = "unlink"])
    /\ UNCHANGED <<disk, CacheVars, lastCall>>

-----------------------------------------------------------------------------
(* removeServiceBinding *)

\* util.ts lines 137-151
removeServiceBindingLoaded(f) ==
    LET r == flow[f] IN
    /\ r.cmd \in {"removeService", "removeExternalService"} /\ r.pc = "load"
    /\ IF ~disk.exists
       THEN Set(f, Throw(r))
       ELSE LET y == Load(disk.text)
                l == [r EXCEPT !.loaded = y, !.yaml = y]
            IN  IF r.kind \notin DOMAIN y THEN Set(f, Throw(l))
                ELSE IF Len(y[r.kind]) = 0
                THEN Set(f, Return(Notify(l, "info", "No Services to remove.")))
                ELSE LET chartBindings == [i \in DOMAIN y[r.kind] |->
                                              y[r.kind][i].name]
                     IN  Set(f, ShowQuickPick(l, chartBindings))
    /\ UNCHANGED <<disk, CacheVars, lastCall>>

\* util.ts lines 153-164
removeServiceBindingPicked(f) ==
    LET r == flow[f] IN
    /\ r.cmd \in {"removeService", "removeExternalService"} /\ r.pc = "pick"
    /\ \E bindingToRemove \in Selections(r) :
          LET s == [r EXCEPT !.sel = bindingToRemove]
          IN  IF bindingToRemove = Undefined \/ bindingToRemove = EmptyStr
              THEN Set(f, Return(s))
              ELSE Set(f, [s EXCEPT
                       !.yaml = PruneBinding(r.kind, bindingToRemove, r.yaml),
                       !.pc = "unlink"])
    /\ UNCHANGED <<disk, CacheVars, lastCall>>

-----------------------------------------------------------------------------
(* Persistence and the usage hint *)

\* (mutant) the file is left in place and written over
unlinked_Keep(f) ==
    LET r == flow[f] IN
    /\ r.pc = "unlink"
    /\ \E ok \in BOOLEAN :
          IF ok /\ disk.exists
          THEN Set(f, [r EXCEPT !.unlinked = TRUE, !.pc = "write"])
          ELSE Set(f, Throw(r))
    /\ UNCHANGED <<disk, CacheVars, lastCall>>

\* util.ts lines 61 and 164: fs.unlinkAsync settles, fs.writeFile is issued
unlinked(f) ==
    LET r == flow[f] IN
    /\ r.pc = "unlink"
    /\ \E ok \in BOOLEAN :
          IF ok /\ disk.exists
          THEN /\ disk' = NoFile
               /\ Set(f, [r EXCEPT !.unlinked = TRUE, !.pc = "write"])
          ELSE /\ Set(f, Throw(r))
               /\ UNCHANGED disk
    /\ UNCHANGED <<CacheVars, lastCall>>

\* (mutant) the document is written as it was loaded
written_Stale(f) ==
    LET r == flow[f] IN
    /\ r.pc = "write"
    /\ \E ok \in BOOLEAN :
          IF ~ok
          THEN /\ Set(f, Throw(r))
               /\ UNCHANGED disk
          ELSE /\ disk' = File(r.loaded)
               /\ LET w == [r EXCEPT !.written = TRUE]
                  IN  CASE r.cmd = "addService" -> Set(f, [w EXCEPT !.pc = "clip"])
                        [] r.cmd = "addExternalService" ->
                             Set(f, [Notify(w, "info",
                                 "Wrote Service Usage information to your clipboard.")
                                     EXCEPT !.pc = "clip"])
                        [] OTHER -> Set(f, Return(w))
    /\ UNCHANGED <<CacheVars, lastCall>>

\* util.ts lines 62 and 165: fs.writeFile settles; then binding.ts lines 89
\* and 127 with util.ts lines 103-122 up to the clipboard write
written(f) ==
    LET r == flow[f] IN
    /\ r.pc = "write"
    /\ \E ok \in BOOLEAN :
          IF ~ok
          THEN /\ Set(f, Throw(r))
               /\ UNCHANGED disk
          ELSE /\ disk' = File(r.yaml)
               /\ LET w == [r EXCEPT !.written = TRUE]
                  IN  CASE r.cmd = "addService" -> Set(f, [w EXCEPT !.pc = "clip"])
                        [] r.cmd = "addExternalService" ->
                             Set(f, [Notify(w, "info",
                                 "Wrote Service Usage information to your clipboard.")
                                     EXCEPT !.pc = "clip"])
                        [] OTHER -> Set(f, Return(w))
    /\ UNCHANGED <<CacheVars, lastCall>>

\* util.ts lines 105 and 122: clipboardy.write settles; then binding.ts
\* lines 90 and 129
clipped(f) ==
    LET r == flow[f] IN
    /\ r.pc = "clip"
    /\ \E ok \in BOOLEAN :
          IF ~ok
          THEN Set(f, Throw(r))
          ELSE LET c == [r EXCEPT !.clipped = TRUE,
                             !.clipboard = UsageMessage(r.kind, r.binding, r.keys)]
               IN  IF r.cmd = "addService"
                   THEN Set(f, Return(Notify(c, "info",
                               "Wrote service info to your clipboard")))
                   ELSE Set(f, Return(Notify(c, "info",
                               "Bound the application to External Service")))
    /\ UNCHANGED <<disk, CacheVars, lastCall>>

-----------------------------------------------------------------------------
(* Specifications *)

EnvEntry(n) == [name |-> n, value |-> DnsName([name |-> n, namespace |-> <<"default">>])]
CatalogEntry(n) == [name |-> n, vars |-> << <<"user">>, <<"pass">> >>]

\* the values documents a chart can start with: each section absent, empty
\* or holding one entry
Init ==
    /\ \E env \in {<<>>, <<EnvEntry(<<"a">>)>>},
          cat \in {<<>>, <<CatalogEntry(<<"a">>)>>},
          K \in SUBSET ServiceType :
            disk = File([k \in K \cup {"other"} |->
                            IF k = serviceEnv THEN env
                            ELSE IF k = serviceCatalogEnv THEN cat
                            ELSE <<"image">>])
    /\ ServiceInstanceNames = <<>>
    /\ ServiceInstanceArray = <<>>
    /\ ServiceInstanceMap = [n \in {} |-> <<>>]
    /\ flow = [f \in Flows |-> IdleFlow]
    /\ lastCall = NoCall

Command(f) ==
    \/ addService(f)
    \/ removeService(f)
    \/ addExternalService(f)
    \/ removeExternalService(f)
    \/ getServiceInstances(f)

Step(f) ==
    \/ addServiceLoaded(f)
    \/ addServiceListed(f)
    \/ addServicePicked(f)
    \/ addExternalServiceLoaded(f)
    \/ instancesListed(f)
    \/ addExternalServicePicked(f)
    \/ addExternalServiceBound(f)
    \/ addExternalServiceSecret(f)
    \/ removeServiceBindingLoaded(f)
    \/ removeServiceBindingPicked(f)
    \/ unlinked(f)
    \/ written(f)
    \/ clipped(f)

\* the host dispatches one command at a time: a command begins when the one
\* before it has returned
Next == Command(1) \/ Step(1)

Spec == Init /\ [][Next]_vars

\* commands are dispatched while earlier ones are suspended at an await
\* (each invocation slot runs one command, on one chart)
InitOverlap ==
    /\ Init
    /\ disk = File([k \in {"other", serviceEnv, serviceCatalogEnv} |->
                      IF k = serviceEnv THEN <<EnvEntry(<<"a">>)>>
                      ELSE IF k = serviceCatalogEnv THEN <<CatalogEntry(<<"a">>)>>
                      ELSE <<"image">>])

NextOverlap == \E f \in Flows : (flow[f].pc = "idle" /\ Command(f)) \/ Step(f)

SpecOverlap == InitOverlap /\ [][NextOverlap]_vars

\* two commands on one chart, each suspended at its awaits while the other
\* or another writer of values.yaml (an editor) goes on
Racers == {1, 2}

\* util.ts lines 127-128: the file at the path is changed from outside
ExternalEdit ==
    /\ disk.exists
    /\ "other" \in DOMAIN Load(disk.text)
    /\ Load(disk.text)["other"] # <<"edited">>
    /\ disk' = File([Load(disk.text) EXCEPT !["other"] = <<"edited">>])
    /\ UNCHANGED <<CacheVars, flow, lastCall>>

EntryPoint(f) ==
    \/ addService(f)
    \/ removeService(f)
    \/ addExternalService(f)
    \/ removeExternalService(f)

\* the instance cache has been populated by an earlier discovery
InitRace ==
    LET stdout == Join(<<HeaderLine, RuleLine, RowLine("b")>>, "\n")
        out == cleanUpInstanceResults(stdout,
                   [Names |-> <<>>, Array |-> <<>>, Map |-> [n \in {} |-> <<>>]])
    IN  /\ disk = File([k \in {"other", serviceEnv, serviceCatalogEnv} |->
                          IF k = serviceEnv THEN <<EnvEntry(<<"a">>)>>
                          ELSE IF k = serviceCatalogEnv THEN <<CatalogEntry(<<"a">>)>>
                          ELSE <<"image">>])
        /\ ServiceInstanceNames = out.cache.Names
        /\ ServiceInstanceArray = out.cache.Array
        /\ ServiceInstanceMap = out.cache.Map
        /\ flow = [f \in Flows |-> IdleFlow]
        /\ lastCall = [returned |-> TRUE, invoked |-> TRUE, stdout |-> stdout,
                       ret |-> [undef |-> FALSE, val |-> out.ret]]

RaceStep(f) ==
    \/ addServiceLoaded(f)
    \/ addServiceListed(f)
    \/ addServicePicked(f)
    \/ addExternalServiceLoaded(f)
    \/ addExternalServicePicked(f)
    \/ addExternalServiceBound(f)
    \/ addExternalServiceSecret(f)
    \/ removeServiceBindingLoaded(f)
    \/ removeServiceBindingPicked(f)
    \/ unlinked(f)
    \/ written(f)
    \/ clipped(f)

NextRace ==
    \/ \E f \in Racers : (flow[f].pc = "idle" /\ EntryPoint(f)) \/ RaceStep(f)
    \/ ExternalEdit

SpecRace == InitRace /\ [][NextRace]_vars

\* the remove commands on a values.yaml written by hand: one section holds
\* up to MaxEntries entries under any names (repeated names included), the
\* other is absent or holds one entry
EntryNames == {<<"a">>, <<"b">>, <<"c">>}

Entry(kind, n) == IF kind = serviceEnv THEN EnvEntry(n) ELSE CatalogEntry(n)

InitRemove ==
    /\ \E kind \in ServiceType, rest \in BOOLEAN :
       \E section \in SeqsUpTo({Entry(kind, n) : n \in EntryNames}, MaxEntries) :
          LET other == CHOOSE k \in ServiceType : k # kind
          IN  disk = File([k \in {"other", kind} \cup (IF rest THEN {other} ELSE {}) |->
                              IF k = kind THEN section
                              ELSE IF k = other THEN <<Entry(other, <<"a">>)>>
                              ELSE <<"image">>])
    /\ ServiceInstanceNames = <<>>
    /\ ServiceInstanceArray = <<>>
    /\ ServiceInstanceMap = [n \in {} |-> <<>>]
    /\ flow = [f \in Flows |-> IdleFlow]
    /\ lastCall = NoCall

NextRemove ==
    \/ removeService(1)
    \/ removeExternalService(1)
    \/ removeServiceBindingLoaded(1)
    \/ removeServiceBindingPicked(1)
    \/ unlinked(1)
    \/ written(1)

SpecRemove == InitRemove /\ [][NextRemove]_vars

-----------------------------------------------------------------------------
(* Properties *)

OnDisk == Load(disk.text)

HasEntryNamed(doc, kind, n) ==
    /\ kind \in DOMAIN doc
    /\ \E i \in DOMAIN doc[kind] : doc[kind][i].name = n

DistinctNames(section) ==
    \A i, j \in DOMAIN section : section[i].name = section[j].name => i = j

AddCommands == {"addService", "addExternalService"}

NoPersistence(r) == ~r.unlinked /\ ~r.written

BindErrorTexts == {"Error binding to External Service",
                   "Could not bind to External Service"}

SuccessTexts == {"Wrote service info to your clipboard",
                 "Bound the application to External Service"}

Texts(r) == {r.notices[i].text : i \in DOMAIN r.notices}
Levels(r) == {r.notices[i].level : i \in DOMAIN r.notices}

\* C1: after any sequence of commands run one at a time, the names within
\* serviceEnv and within serviceCatalogEnv of the document on disk are
\* pairwise distinct.
C1_DistinctBindingNames ==
    disk.exists =>
        \A kind \in ServiceType :
            kind \in DOMAIN OnDisk => DistinctNames(OnDisk[kind])

\* an add command has persisted a second entry into its section
C1_Witness ==
    \E f \in Flows :
        /\ flow[f].pc = "done" /\ flow[f].cmd \in AddCommands
        /\ flow[f].written /\ disk.exists
        /\ flow[f].kind \in DOMAIN OnDisk
        /\ Len(OnDisk[flow[f].kind]) = 2

\* the add flow f has ended after resolving to a name its loaded document
\* already held
EndedOnDuplicate(f) ==
    /\ flow[f].pc = "done" /\ flow[f].cmd \in AddCommands
    /\ ~Falsy(flow[f].binding)
    /\ HasEntryNamed(flow[f].loaded, flow[f].kind, flow[f].binding)

\* C2: an add flow that resolves to a name already present in its section of
\* the loaded document ends with the document unchanged in memory and on
\* disk, no delete, no write, no secret fetch, no clipboard write and no
\* notice.
C2_DuplicateRejected ==
    \A f \in Flows :
        EndedOnDuplicate(f) =>
            /\ flow[f].yaml = flow[f].loaded
            /\ disk.exists /\ OnDisk = flow[f].loaded
            /\ NoPersistence(flow[f])
            /\ ~flow[f].secretFetched
            /\ ~flow[f].clipped
            /\ flow[f].notices = <<>>

\* addExternalService got a binding whose name the document already held
C2_Witness ==
    \E f \in Flows :
        /\ EndedOnDuplicate(f)
        /\ flow[f].cmd = "addExternalService" /\ flow[f].bound

Populated(call) == call.returned /\ ~call.ret.undef /\ Len(call.ret.val) > 0

\* a getServiceInstances call returns in this step
CallReturns ==
    \E f \in Flows :
        \/ flow[f].pc = "discover" /\ flow'[f].pc # "discover"
        \/ /\ flow[f].pc \in {"idle", "done"}
           /\ flow'[f].cmd = "getServiceInstances" /\ flow'[f].pc = "done"
           /\ ~flow'[f].discovered

\* C3 (as stated): of any two getServiceInstances calls at most one invokes
\* the discovery command, and the later returns what the earlier returned
\* (stated for a call and the call before it).
C3_AtMostOneDiscovery ==
    [][CallReturns /\ lastCall.returned =>
          /\ ~(lastCall.invoked /\ lastCall'.invoked)
          /\ lastCall'.ret = lastCall.ret]_vars

\* C3 (amended): when a getServiceInstances call has returned at least one
\* record, the call made after it invokes no discovery and returns the same
\* sequence (and so does every later one).
C3_CachedAfterPopulation ==
    [][CallReturns /\ Populated(lastCall) =>
          /\ ~lastCall'.invoked
          /\ lastCall'.ret = lastCall.ret]_vars

\* a call has returned the populated cache without a discovery
C3_Witness ==
    /\ Populated(lastCall) /\ ~lastCall.invoked
    /\ \E f \in Flows : flow[f].cmd = "getServiceInstances" /\ flow[f].pc = "done"

NamesFollowArray ==
    /\ Len(ServiceInstanceNames) = Len(ServiceInstanceArray)
    /\ \A i \in DOMAIN ServiceInstanceNames :
          ServiceInstanceNames[i] = ServiceInstanceArray[i].name

\* C4 (as stated): the name list and the record list agree index by index,
\* and every listed name has exactly one map entry and exactly one record.
C4_ThreeViewsInSync ==
    /\ NamesFollowArray
    /\ \A i \in DOMAIN ServiceInstanceNames :
          /\ ServiceInstanceNames[i] \in DOMAIN ServiceInstanceMap
          /\ Cardinality({j \in DOMAIN ServiceInstanceArray :
                ServiceInstanceArray[j].name = ServiceInstanceNames[i]}) = 1

\* C4 (amended): the name list and the record list agree index by index, the
\* keys of the map are exactly the listed names, and the entry of a name is
\* the last record listed under it.
C4_ViewsAgree ==
    /\ NamesFollowArray
    /\ DOMAIN ServiceInstanceMap = Range(ServiceInstanceNames)
    /\ \A n \in DOMAIN ServiceInstanceMap :
          \E i \in DOMAIN ServiceInstanceArray :
              /\ ServiceInstanceMap[n] = ServiceInstanceArray[i]
              /\ ServiceInstanceArray[i].name = n
              /\ \A j \in DOMAIN ServiceInstanceArray :
                    ServiceInstanceArray[j].name = n => j <= i

\* the cache holds two rows of one name
C4_Witness ==
    /\ Len(ServiceInstanceNames) = 2
    /\ ServiceInstanceNames[1] = ServiceInstanceNames[2]
    /\ Cardinality(DOMAIN ServiceInstanceMap) = 1

\* C5: once the cache holds a record, no step changes any of its views.
C5_PopulatedOnce ==
    [][Len(ServiceInstanceArray) > 0 => UNCHANGED CacheVars]_vars

ReuseCase(r) ==
    /\ r.bound /\ ~Falsy(r.sel)
    /\ ~r.bindResults.raised /\ r.bindResults.code # 0
    /\ Includes(r.bindResults.stderr, AlreadyExists)

FailureCase(r) ==
    /\ r.bound /\ ~Falsy(r.sel)
    /\ ~r.bindResults.raised /\ r.bindResults.code # 0
    /\ ~Includes(r.bindResults.stderr, AlreadyExists)

\* C6: a bind that exits non-zero with "already exists" anywhere in stderr
\* yields the requested name and shows no bind error.
C6_BindReuse ==
    \A f \in Flows :
        ReuseCase(flow[f]) =>
            /\ flow[f].binding = flow[f].sel
            /\ Texts(flow[f]) \cap BindErrorTexts = {}

\* C7: a bind that exits non-zero without "already exists" in stderr shows an
\* error, yields null, and the command ends without a secret fetch, a change
\* of the document, a persistence or a success notice.
C7_BindFailure ==
    \A f \in Flows :
        FailureCase(flow[f]) =>
            /\ flow[f].binding = Null
            /\ Texts(flow[f]) \cap BindErrorTexts # {}
            /\ flow[f].pc = "done"
            /\ ~flow[f].secretFetched
            /\ flow[f].yaml = flow[f].loaded
            /\ NoPersistence(flow[f])
            /\ Texts(flow[f]) \cap SuccessTexts = {}

Answered(f) == flow[f].pc = "pick" /\ flow'[f].pc # "pick"

\* C8: when a prompt is answered with nothing (undefined or the empty
\* string), the command ends there: no exception, no bind command, no new
\* notice, and the document unchanged in memory and on disk.
C8_EmptySelectionAborts ==
    [][\A f \in Flows :
          Answered(f) /\ flow'[f].sel \in {Undefined, EmptyStr} =>
              /\ flow'[f].pc = "done"
              /\ ~flow'[f].threw
              /\ ~flow'[f].bindInvoked
              /\ flow'[f].notices = flow[f].notices
              /\ flow'[f].yaml = flow[f].yaml
              /\ disk' = disk]_vars

\* C9: when the listing call fails, the add command shows a notice and ends:
\* no prompt, no bind command, and nothing persisted.
C9_DiscoveryFailureAborts ==
    \A f \in Flows :
        flow[f].cmd \in AddCommands /\ flow[f].listing = "failed" =>
            /\ flow[f].pc = "done"
            /\ flow[f].notices # <<>>
            /\ ~flow[f].prompted
            /\ ~flow[f].bindInvoked
            /\ NoPersistence(flow[f])

\* C10: when the listing call succeeds and finds nothing, the add command
\* shows an informational notice and no error notice, and ends: no prompt,
\* no bind command, and nothing persisted.
C10_EmptyResultAborts ==
    \A f \in Flows :
        flow[f].cmd \in AddCommands /\ flow[f].listing = "empty" =>
            /\ flow[f].pc = "done"
            /\ Levels(flow[f]) = {"info"}
            /\ ~flow[f].prompted
            /\ ~flow[f].bindInvoked
            /\ NoPersistence(flow[f])

SecretErrorTexts == {"Could not find the External Service secret",
                     "Could not get External Service"}

UsageTexts == {"Wrote Service Usage information to your clipboard."}

SecretFailed(r) ==
    /\ r.cmd = "addExternalService" /\ r.secretSettled
    /\ (r.secretResults.raised \/ r.secretResults.code # 0)

\* C11: when the secret lookup of addExternalService raises or exits
\* non-zero, an error notice is shown and the command ends there: the
\* document is unchanged in memory, nothing is deleted or written, no usage
\* hint reaches the clipboard, no usage or success notice is shown, and the
\* command issues nothing after the lookup (the binding stays).
C11_SecretFailureAborts ==
    \A f \in Flows :
        SecretFailed(flow[f]) =>
            /\ Texts(flow[f]) \cap SecretErrorTexts # {}
            /\ flow[f].pc = "done"
            /\ flow[f].yaml = flow[f].loaded
            /\ NoPersistence(flow[f])
            /\ ~flow[f].clipped /\ flow[f].clipboard = NoMessage
            /\ Texts(flow[f]) \cap (SuccessTexts \cup UsageTexts) = {}

\* the binding was made and the secret lookup then exited non-zero
C11_Witness ==
    \E f \in Flows :
        /\ SecretFailed(flow[f]) /\ flow[f].secretResults.code # 0
        /\ flow[f].bound /\ flow[f].bindResults.code = 0
        /\ ~flow[f].bindResults.raised

EntryPoints == {"addService", "removeService", "addExternalService",
                "removeExternalService"}

\* C12: no command of the four entry points ends by an exception, whatever
\* the document load, the command-line calls, the secret lookup and the file
\* delete and write answer.
C12_NoFailureEscapes ==
    \A f \in Flows : flow[f].cmd \in EntryPoints => ~flow[f].threw

LoadsWithoutSection(f) ==
    /\ flow[f].cmd \in {"removeService", "removeExternalService"}
    /\ flow[f].pc = "load" /\ flow'[f].pc # "load"
    /\ disk.exists /\ flow[f].kind \notin DOMAIN Load(disk.text)

\* C13: when a remove command loads a document that has no section of its
\* kind, it shows "No Services to remove." and ends: no prompt, no delete,
\* no write and no exception.
C13_MissingSectionAsEmpty ==
    [][\A f \in Flows :
          LoadsWithoutSection(f) =>
              /\ flow'[f].pc = "done"
              /\ "No Services to remove." \in Texts(flow'[f])
              /\ ~flow'[f].prompted
              /\ NoPersistence(flow'[f])
              /\ ~flow'[f].threw
              /\ disk' = disk]_vars

RemoveCommands == {"removeService", "removeExternalService"}

Count(section, n) == Cardinality({i \in DOMAIN section : section[i].name = n})

RemoveAt(section, i) ==
    SubSeq(section, 1, i - 1) \o SubSeq(section, i + 1, Len(section))

\* the section is `before` without its one entry named n
WithoutTheOne(before, n, after) ==
    /\ Len(after) = Len(before) - 1
    /\ Count(after, n) = 0
    /\ \E i \in DOMAIN before :
          before[i].name = n /\ after = RemoveAt(before, i)

\* C14: when a remove command has persisted its removal of the selected name
\* from a section that held exactly one entry of that name, the section on
\* disk is one shorter, holds no entry of that name and holds the others in
\* their order; removing a name the section does not hold gives, once written
\* and read back, the section as it was.
C14_RemovalCorrect ==
    \A f \in Flows :
        LET r == flow[f] IN
        r.cmd \in RemoveCommands /\ r.kind \in DOMAIN r.loaded =>
            /\ r.pc = "done" /\ r.written /\ Count(r.loaded[r.kind], r.sel) = 1 =>
                  /\ disk.exists /\ r.kind \in DOMAIN OnDisk
                  /\ WithoutTheOne(r.loaded[r.kind], r.sel, OnDisk[r.kind])
            /\ \A n \in EntryNames :
                  Count(r.loaded[r.kind], n) = 0 =>
                      Load(Stringify(PruneBinding(r.kind, n, r.loaded)))[r.kind]
                          = r.loaded[r.kind]

\* the middle entry of a section of three was removed and the file rewritten
C14_Witness ==
    \E f \in Flows :
        LET r == flow[f] IN
        /\ r.cmd \in RemoveCommands /\ r.pc = "done" /\ r.written
        /\ r.kind \in DOMAIN r.loaded /\ Len(r.loaded[r.kind]) = 3
        /\ Count(r.loaded[r.kind], r.sel) = 1
        /\ r.loaded[r.kind][2].name = r.sel
        /\ Count(r.loaded[r.kind], <<"c">>) = 0
        /\ Len(OnDisk[r.kind]) = 2

\* the section of a kind in a document, empty when the document has none
Prior(doc, kind) == IF kind \in DOMAIN doc THEN doc[kind] ELSE <<>>

Namespaces == {svc.namespace : svc \in Services}

\* the entry writeSecretData was asked to add by the flow r
IsNewEntry(r, e) ==
    IF r.kind = serviceEnv
    THEN \E ns \in Namespaces :
            e = [name |-> r.binding,
                 value |-> DnsName([name |-> r.binding, namespace |-> ns])]
    ELSE e = [name |-> r.binding, vars |-> r.keys]

\* C15: once writeSecretData has completed in an add command, the document
\* read back from the path has, in the section of the command's kind, the
\* entries the loaded document had there (none if it had no such section)
\* followed by exactly one new entry: {name, value} for serviceEnv,
\* {name, vars} for serviceCatalogEnv.
C15_RoundTrip ==
    \A f \in Flows :
        LET r == flow[f] IN
        r.cmd \in AddCommands /\ r.written =>
            /\ disk.exists /\ r.kind \in DOMAIN OnDisk
            /\ Len(OnDisk[r.kind]) = Len(Prior(r.loaded, r.kind)) + 1
            /\ SubSeq(OnDisk[r.kind], 1, Len(Prior(r.loaded, r.kind)))
                  = Prior(r.loaded, r.kind)
            /\ IsNewEntry(r, OnDisk[r.kind][Len(OnDisk[r.kind])])

\* an add command has written into a section that already held an entry, and
\* the other section is absent from the document
C15_Witness ==
    \E f \in Flows :
        LET r == flow[f] IN
        /\ r.cmd \in AddCommands /\ r.written /\ disk.exists
        /\ Len(Prior(r.loaded, r.kind)) = 1
        /\ Len(Prior(OnDisk, r.kind)) = 2
        /\ \E k \in ServiceType : k \notin DOMAIN OnDisk

\* the k-th smallest member of a set of numbers
Kth(S, k) == CHOOSE i \in S : Cardinality({j \in S : j < i}) = k - 1

\* the positions where a run of pieces other than the space begins
TokenStarts(line) ==
    {i \in DOMAIN line : line[i] # " " /\ (i = 1 \/ line[i - 1] = " ")}

\* the k-th token of a line, counted from 0; undefined when there is none
Token(line, k) ==
    IF k + 1 > Cardinality(TokenStarts(line)) THEN Undefined
    ELSE LET st == Kth(TokenStarts(line), k + 1)
             en == CHOOSE j \in st..Len(line) :
                      /\ \A m \in st..j : line[m] # " "
                      /\ (j = Len(line) \/ line[j + 1] = " ")
         IN  SubSeq(line, st, en)

\* the lines of a text: the stretches between its newlines
LinesOf(text) ==
    LET breaks == {i \in DOMAIN text : text[i] = "\n"}
        n == Cardinality(breaks) + 1
        from(k) == IF k = 1 THEN 1 ELSE Kth(breaks, k - 1) + 1
        to(k) == IF k = n THEN Len(text) ELSE Kth(breaks, k) - 1
    IN  [k \in 1..n |-> SubSeq(text, from(k), to(k))]

DataRows(lines) == {i \in DOMAIN lines : i > 2 /\ lines[i] # <<>>}

\* recs holds one record per data row of text, in the order of the rows
ParsedInOrder(text, recs) ==
    LET lines == LinesOf(text)
        rows == DataRows(lines)
    IN  /\ Len(recs) = Cardinality(rows)
        /\ \A k \in DOMAIN recs :
              LET line == lines[Kth(rows, k)]
              IN  recs[k] = [name |-> Token(line, 0),
                             namespace |-> Token(line, 1),
                             class |-> Token(line, 2),
                             plan |-> Token(line, 3),
                             status |-> Token(line, 4)]

InClusterEntry(n, ns) ==
    [name |-> n, value |-> n \o <<".", ns[1], ".svc.cluster.local">>]

\* C17: when addService goes on to persist a selected service that is not
\* yet bound, the serviceEnv section it builds is the loaded one followed by
\* the single entry {name: n, value: "n.ns.svc.cluster.local"}, ns being the
\* namespace of a discovered service of the selected name; that section is
\* what the file holds once written and when the command ends in success.
C17_InClusterEntry ==
    [][\A f \in Flows :
          flow[f].cmd = "addService" =>
              /\ flow[f].pc = "pick" /\ flow'[f].pc = "unlink" =>
                    \E svc \in Range(flow[f].services) :
                        /\ svc.name = flow'[f].sel
                        /\ flow'[f].yaml[serviceEnv] =
                              Append(Prior(flow[f].loaded, serviceEnv),
                                     InClusterEntry(svc.name, svc.namespace))
              /\ flow[f].pc \in {"write", "clip"} /\ flow'[f].written =>
                    /\ flow'[f].yaml = flow[f].yaml
                    /\ disk'.exists
                    /\ Load(disk'.text)[serviceEnv] = flow[f].yaml[serviceEnv]]_vars

\* addService has ended in success after binding "b" of namespace "default"
\* next to the entry the document held
C17_Witness ==
    \E f \in Flows :
        LET r == flow[f] IN
        /\ r.cmd = "addService" /\ r.pc = "done" /\ r.written
        /\ "Wrote service info to your clipboard" \in Texts(r)
        /\ Len(Prior(r.loaded, serviceEnv)) = 1
        /\ disk.exists
        /\ OnDisk[serviceEnv] =
              Append(r.loaded[serviceEnv],
                     [name |-> <<"b">>,
                      value |-> <<"b", ".", "default", ".svc.cluster.local">>])

\* the flow f is between the delete and the write of its persistence
InWindow(f) == flow[f].pc = "write"

Deletes(f) == flow[f].pc = "unlink" /\ flow'[f].pc = "write"
Writes(f) == InWindow(f) /\ flow'[f].written
FailsInWindow(f) == InWindow(f) /\ flow'[f].threw

\* C18: a persistence deletes the file and then writes the serialized
\* in-memory document.  The file leaves the path only by the delete of a
\* persistence and comes back only by the write that follows it; between the
\* two there is no file; a write that fails there leaves no file; a write
\* that completes leaves the flow's in-memory document as the file's content.
C18_DeleteThenWrite ==
    [][/\ \A f \in Flows : Deletes(f) => disk.exists /\ ~disk'.exists
       /\ \A f \in Flows : InWindow(f) => flow[f].unlinked /\ ~disk.exists
       /\ disk.exists /\ ~disk'.exists => \E f \in Flows : Deletes(f)
       /\ disk' # disk /\ disk'.exists => \E f \in Flows : Writes(f)
       /\ \A f \in Flows :
             FailsInWindow(f) => ~disk'.exists /\ ~flow'[f].written
       /\ \A f \in Flows :
             Writes(f) =>
                /\ disk' = [exists |-> TRUE, text |-> Stringify(flow[f].yaml)]
                /\ Load(disk'.text) = flow'[f].yaml]_vars

\* a write has failed after the delete: the command is over and the path
\* holds no file
C18_Witness ==
    \E f \in Flows :
        /\ flow[f].pc = "done" /\ flow[f].threw
        /\ flow[f].unlinked /\ ~flow[f].written
        /\ ~disk.exists

\* yaml is loaded with the one change the command of flow r makes
OwnMutation(r) ==
    IF r.cmd \in AddCommands
    THEN /\ r.kind \in DOMAIN r.yaml
         /\ Len(r.yaml[r.kind]) = Len(Prior(r.loaded, r.kind)) + 1
         /\ r.yaml[r.kind][Len(r.yaml[r.kind])].name = r.binding
         /\ r.yaml = (r.kind :> Append(Prior(r.loaded, r.kind),
                                       r.yaml[r.kind][Len(r.yaml[r.kind])]))
                        @@ r.loaded
    ELSE LET Others(e) == e.name # r.sel
         IN  r.yaml = [r.loaded EXCEPT ![r.kind] = SelectSeq(@, Others)]

\* both add flows loaded the same document, and g has written its entry
WroteBefore(g, f) ==
    /\ g # f
    /\ flow[f].cmd \in AddCommands /\ flow[g].cmd \in AddCommands
    /\ flow[g].written /\ flow[g].loaded = flow[f].loaded
    /\ <<flow[g].kind, flow[g].binding>> # <<flow[f].kind, flow[f].binding>>

\* C19: whatever became of the file since a flow loaded it, once the flow
\* has written, the file is the document the flow loaded with the flow's one
\* change; the write shows no notice but the usage one; and when two add
\* flows loaded the same document, the write of the later one leaves the
\* file without the entry the earlier one wrote.
C19_LostUpdate ==
    [][\A f \in Flows :
          Writes(f) =>
              /\ disk'.exists /\ Load(disk'.text) = flow[f].yaml
              /\ OwnMutation(flow[f])
              /\ Texts(flow'[f]) \ Texts(flow[f]) \subseteq UsageTexts
              /\ Levels(flow'[f]) \subseteq Levels(flow[f]) \cup {"info"}
              /\ \A g \in Flows :
                    WroteBefore(g, f) =>
                        ~HasEntryNamed(Load(disk'.text), flow[g].kind,
                                       flow[g].binding)]_vars

\* two add flows have both reported success and the file holds the entry of
\* one of them only
C19_Witness ==
    \E f, g \in Flows :
        /\ f # g
        /\ flow[f].cmd = "addService" /\ flow[g].cmd = "addExternalService"
        /\ flow[f].pc = "done" /\ flow[g].pc = "done"
        /\ Texts(flow[f]) \cap SuccessTexts # {}
        /\ Texts(flow[g]) \cap SuccessTexts # {}
        /\ flow[f].loaded = flow[g].loaded
        /\ disk.exists /\ OnDisk = flow[g].yaml
        /\ ~HasEntryNamed(OnDisk, flow[f].kind, flow[f].binding)

\* the documents agree on every top-level key but the section of the kind
SameElsewhere(before, after, kind) ==
    /\ DOMAIN before \ {kind} = DOMAIN after \ {kind}
    /\ \A k \in DOMAIN before \ {kind} : after[k] = before[k]

\* C20: when an add or remove command has completed its write, the file and
\* the in-memory document agree with the loaded document on every top-level
\* key but the section of the command's kind; an add leaves the entries that
\* section already held as they were, in their places.
C20_SectionIsolation ==
    \A f \in Flows :
        LET r == flow[f] IN
        r.cmd \in EntryPoints /\ r.pc = "done" /\ r.written =>
            /\ disk.exists
            /\ SameElsewhere(r.loaded, OnDisk, r.kind)
            /\ SameElsewhere(r.loaded, r.yaml, r.kind)
            /\ r.cmd \in AddCommands =>
                  /\ r.kind \in DOMAIN OnDisk
                  /\ \A i \in DOMAIN Prior(r.loaded, r.kind) :
                        /\ i \in DOMAIN OnDisk[r.kind]
                        /\ OnDisk[r.kind][i] = r.loaded[r.kind][i]

\* removeService has removed "a" from a document whose serviceCatalogEnv
\* holds an entry of the same name
C20_Witness ==
    \E f \in Flows :
        LET r == flow[f] IN
        /\ r.cmd = "removeService" /\ r.pc = "done" /\ r.written
        /\ r.sel = <<"a">>
        /\ HasEntryNamed(r.loaded, serviceCatalogEnv, <<"a">>)
        /\ disk.exists
        /\ HasEntryNamed(OnDisk, serviceCatalogEnv, <<"a">>)
        /\ ~HasEntryNamed(OnDisk, serviceEnv, <<"a">>)

====
